---- MODULE Spec2Model ----
(***************************************************************************)
(* A model of the ai-weather refresh pipeline: the archive store           *)
(* (storage/archive.py), the state cache (state/service.py), the           *)
(* broadcast hub (websocket/server.py), the cycle scheduler                *)
(* (scheduler/jobs.py) and the orchestrator (ai/manager.py).               *)
(*                                                                         *)
(* Optional values are tuples: <<>> is None, <<x>> is a present value.     *)
(* Worker names are tuples of characters, so that the file-name transform  *)
(* of get_model_filename is computed character by character.               *)
(***************************************************************************)
EXTENDS Integers, Sequences, FiniteSets, TLC

VARIABLES
    enabled,                 \* names of the ai_models entries with enabled=True
    now,                     \* wall clock, in ticks (TicksPerHour ticks an hour)
    ymDirs,                  \* <base_dir>/<YYYY-MM> directories that exist
    archive,                 \* hour -> the <DD-HH> directory of that hour
    current_timestamp,       \* StateService.current_timestamp
    current_weather,         \* StateService.current_weather
    current_visualizations,  \* StateService.current_visualizations
    visualization_status,    \* StateService.visualization_status
    active_connections,      \* ConnectionManager.active_connections (a list)
    conn,                    \* observer -> position of its handle() coroutine
    app,                     \* position of main.lifespan
    needs,                   \* what needs_refresh did at startup
    next_run_time,           \* the cron job's next_run_time
    job,                     \* executor slot -> a running instance of the job
    skipped,                 \* runs the executor refused (max_instances reached)
    last,                    \* the cycle that ended last (history)
    max_concurrent,          \* settings.ai.max_concurrent
    gen,                     \* position of a call of AIManager.generate_all
    task,                    \* worker name -> its task inside generate_all
    sem,                     \* free slots of generate_all's semaphore
    results,                 \* the mapping generate_all returned
    cbDone,                  \* the on_update invocation that has just returned
    hello,                   \* observer -> progress of connect() and what the
                             \* observer received while it ran (history)
    call,                    \* the last direct call of an ArchiveManager
                             \* operation and what it returned (history)
    thr,                     \* one generate_with_callback task seen by its
                             \* clock: last_update and the chunks forwarded
    tree                     \* the <YYYY-MM>/<DD-HH> directories under base_dir
                             \* by the names strftime gives them, and the
                             \* timestamps they were made for (history)

genVars == <<max_concurrent, gen, task, sem, results, cbDone>>

schedVars == <<now, app, needs, next_run_time, job, skipped, last>>

vars == <<enabled, now, ymDirs, archive, current_timestamp, current_weather,
          current_visualizations, visualization_status, active_connections,
          conn, app, needs, next_run_time, job, skipped, last, genVars, hello, call, thr, tree>>

----------------------------------------------------------------------------
(* Bounds of the model *)

MaxTime == 5
TicksPerHour == 2
HoursPerMonth == 2
MaxConcurrent == 2
MaxChunks == 1
MaxEnabled == 2
MaxClock == 11
MaxStreamed == 3

None == <<>>
Some(x) == <<x>>

Max(S) == CHOOSE x \in S : \A y \in S : y <= x

Hours == 0 .. (MaxTime \div TicksPerHour)
Observers == {"o1", "o2"}
Slots == {1, 2}

----------------------------------------------------------------------------
(* Configuration (config/models.py) *)

ai_models == << <<"a">>, <<"b", " ">>, <<"b", "_">> >>
Workers == {ai_models[i] : i \in DOMAIN ai_models}

refresh_minute == 0

max_instances_two == 1 + 1

\* add_job(..., max_instances=1)
max_instances == 1

IsEnabled(name) == name \in enabled

get_enabled_ai_model_names == SelectSeq(ai_models, IsEnabled)

----------------------------------------------------------------------------
(* Time *)

\* datetime.now().replace(minute=0, second=0, microsecond=0), as an hour number
HourOf(t) == t \div TicksPerHour

\* datetime.isoformat() and datetime.fromisoformat(): a string that is not an
\* ISO date (a directory name "DD-HH") does not parse
isoformat(h) == <<"iso", h>>
IsIso(s) == Len(s) = 2 /\ s[1] = "iso"
fromisoformat(s) == s[2]

\* CronTrigger(minute=refresh_minute).get_next_fire_time: the first matching
\* instant after t
NextFireTime(t) ==
    LET cand == {u \in (t + 1) .. (t + TicksPerHour) :
                    u % TicksPerHour = refresh_minute}
    IN  CHOOSE u \in cand : TRUE

----------------------------------------------------------------------------
(* Archive Store (storage/archive.py) *)

YearMonth(h) == h \div HoursPerMonth
DayHour(h) == h % HoursPerMonth

Replace(c) == IF c \in {" ", "/"} THEN "_" ELSE c
get_model_filename(name) ==
    [i \in 1 .. Len(name) |-> Replace(name[i])] \o <<".html">>

MetadataFile == <<"metadata.json">>
WeatherFile == <<"weather.json">>
RawDataFile == <<"rawdata.json">>
FileNames == {MetadataFile, WeatherFile, RawDataFile}
                \cup {get_model_filename(n) : n \in Workers}

NoFiles == [f \in FileNames |-> None]
NoDir == [exists |-> FALSE, files |-> NoFiles]

Exists(h, f) == archive[h].exists /\ archive[h].files[f] # None

WriteFile_keeps_existing(h, f, content) ==
    /\ ymDirs' = ymDirs \cup {YearMonth(h)}
    /\ archive' = [archive EXCEPT ![h] =
                      [exists |-> TRUE,
                       files |-> [archive[h].files EXCEPT
                                     ![f] = IF @ = None THEN Some(content) ELSE @]]]

\* hour_dir.mkdir(parents=True, exist_ok=True) followed by open(path, "w") and write
WriteFile(h, f, content) ==
    /\ ymDirs' = ymDirs \cup {YearMonth(h)}
    /\ archive' = [archive EXCEPT ![h] =
                      [exists |-> TRUE,
                       files |-> [archive[h].files EXCEPT ![f] = Some(content)]]]

find_latest_dir ==
    IF ymDirs = {} THEN None
    ELSE LET ym == Max(ymDirs)
             hs == {h \in Hours : archive[h].exists /\ YearMonth(h) = ym}
         IN  IF hs = {} THEN None
             ELSE Some(CHOOSE h \in hs : DayHour(h) = Max({DayHour(g) : g \in hs}))

get_missing_models(h, models) ==
    SelectSeq(models, LAMBDA m : ~Exists(h, get_model_filename(m)))

\* json.loads of a stored file: a truncated file does not parse
ParsesAsJson(content) == content[1] = "json"

LoadRaises(h) ==
    \/ Exists(h, WeatherFile) /\ ~ParsesAsJson(archive[h].files[WeatherFile][1])
    \/ Exists(h, MetadataFile) /\ ~ParsesAsJson(archive[h].files[MetadataFile][1])

_load_hour_data_every_artifact(h, models) ==
    [timestamp |-> IF Exists(h, MetadataFile)
                   THEN archive[h].files[MetadataFile][1][2]
                   ELSE <<"dir", DayHour(h)>>,
     weather |-> IF Exists(h, WeatherFile)
                 THEN Some(archive[h].files[WeatherFile][1][2])
                 ELSE None,
     visualizations |->
         [m \in {w \in Workers : Exists(h, get_model_filename(w))} |->
             archive[h].files[get_model_filename(m)][1]],
     missing_visualizations |-> get_missing_models(h, models)]

_load_hour_data(h, models) ==
    LET present == {models[i] : i \in {j \in DOMAIN models :
                                        Exists(h, get_model_filename(models[j]))}}
    IN  [timestamp |-> IF Exists(h, MetadataFile)
                       THEN archive[h].files[MetadataFile][1][2]
                       ELSE <<"dir", DayHour(h)>>,
         weather |-> IF Exists(h, WeatherFile)
                     THEN Some(archive[h].files[WeatherFile][1][2])
                     ELSE None,
         visualizations |->
             [m \in present |-> archive[h].files[get_model_filename(m)][1]],
         missing_visualizations |-> get_missing_models(h, models)]

----------------------------------------------------------------------------
(* Broadcast Hub (websocket/server.py): message construction *)

make_weather_message ==
    IF current_weather = None THEN None
    ELSE Some(<<"weather_data", current_timestamp, current_weather[1]>>)

StatusOf(name) ==
    IF name \in DOMAIN visualization_status
    THEN visualization_status[name] ELSE "up_to_date"

make_visualization_message(name) ==
    Some(<<"visualization_update", name,
           IF name \in DOMAIN current_visualizations
           THEN Some(current_visualizations[name]) ELSE None,
           StatusOf(name)>>)

\* the model name of a visualization_update, nothing for the other messages
MsgKey(m) == IF m[1] = "visualization_update" THEN m[2] ELSE <<>>

Range(seq) == {seq[n] : n \in DOMAIN seq}

Remove(seq, o) == SelectSeq(seq, LAMBDA x : x # o)
RemoveAll(seq, S) == SelectSeq(seq, LAMBDA x : x \notin S)

----------------------------------------------------------------------------
(* Initial state: the process has not started; the archive on disk holds   *)
(* what an earlier run left for hour 0: nothing, or a cycle directory      *)
(* with a prefix of the files a cycle writes.                              *)

OldMeta == <<"json", isoformat(0)>>
OldWeather == <<"json", "p0">>
OldHtml == <<"old">>

\* the hour of the cycle that the specifications of single components look at
CycleHour == 1

\* the accumulated output after n chunks; an error page made by _error_html
Html(w, n) == <<"html", w, n>>
ErrorHtml(w, e) == <<e, w, 0>>
\* a file that open(path, "w") has emptied
Truncated == <<"empty">>

PriorDirs ==
    {NoDir, [exists |-> TRUE, files |-> NoFiles],
     [exists |-> TRUE, files |-> [NoFiles EXCEPT ![MetadataFile] = Some(OldMeta)]]}
    \cup
    {[exists |-> TRUE,
      files |-> [f \in FileNames |->
                    IF f = MetadataFile THEN Some(OldMeta)
                    ELSE IF f = WeatherFile THEN Some(OldWeather)
                    ELSE IF f \in S THEN Some(OldHtml) ELSE None]] :
        S \in SUBSET {get_model_filename(n) : n \in Workers}}

\* what a cycle can change: the archive and the State Cache
Snapshot == <<ymDirs, archive, current_timestamp, current_weather,
              current_visualizations, visualization_status>>

IdleJob == [pc |-> "idle", ts |-> 0, wj |-> None, k |-> 0, msg |-> None,
            idx |-> 0, disc |-> {}, sent |-> <<>>, at0 |-> <<>>,
            log |-> <<>>, snap |-> <<>>, prev |-> "none"]

NoLast == [outcome |-> "none", ts |-> 0, log |-> <<>>, snap |-> <<>>]

NoThr == [t |-> 0, last_update |-> 0, chunks |-> 0, fwd |-> 0, mark |-> 0,
          first |-> 0, latest |-> 0]

NoTree == [dirs |-> {}, cycles |-> {}]

NoCall == [op |-> "none", name |-> <<>>, payload |-> <<>>, rep |-> FALSE,
           raised |-> FALSE, result |-> None]

NoHello == [k |-> 0, failed |-> FALSE, got |-> <<>>]

NoTask == [pc |-> "none", ret |-> "none", acc |-> 0, html |-> <<>>, since |-> 0,
           msg |-> None, idx |-> 0, disc |-> {}, cbRaised |-> FALSE,
           final |-> None, ups |-> <<>>]

Init ==
    /\ enabled \in {S \in SUBSET Workers : Cardinality(S) <= MaxEnabled}
    /\ now \in 1 .. (TicksPerHour + 1)
    /\ \E d \in PriorDirs :
          /\ archive = [h \in Hours |-> IF h = 0 THEN d ELSE NoDir]
          /\ ymDirs = IF d.exists THEN {YearMonth(0)} ELSE {}
    /\ current_timestamp = None
    /\ current_weather = None
    /\ current_visualizations = <<>>
    /\ visualization_status = <<>>
    /\ active_connections = <<>>
    /\ conn = [o \in Observers |-> "new"]
    /\ app = "init"
    /\ needs = "none"
    /\ next_run_time = None
    /\ job = [i \in Slots |-> IdleJob]
    /\ skipped = 0
    /\ last = NoLast
    /\ max_concurrent = 0
    /\ gen = "idle"
    /\ task = [w \in Workers |-> NoTask]
    /\ sem = 0
    /\ results = <<>>
    /\ cbDone = None
    /\ hello = [o \in Observers |-> NoHello]
    /\ call = NoCall
    /\ thr = NoThr
    /\ tree = NoTree

----------------------------------------------------------------------------
(* main.lifespan: load the State Cache from the archive, start the scheduler *)

\* StateService.load_from_archive, called inside lifespan's try/except
LoadFromArchive ==
    /\ app = "init"
    /\ app' = "loaded"
    /\ LET latest == find_latest_dir
       IN  IF latest = None \/ LoadRaises(latest[1])
           THEN UNCHANGED <<current_timestamp, current_weather,
                            current_visualizations, visualization_status>>
           ELSE LET data == _load_hour_data(latest[1], get_enabled_ai_model_names)
                IN  /\ current_timestamp' = data.timestamp
                    /\ current_weather' = data.weather
                    /\ current_visualizations' = data.visualizations
                    /\ visualization_status' =
                          [m \in DOMAIN data.visualizations |-> "up_to_date"]
    /\ UNCHANGED <<genVars, hello, call, thr, tree>>
    /\ UNCHANGED <<enabled, now, ymDirs, archive, active_connections, conn,
                   needs, next_run_time, job, skipped, last>>

\* WeatherScheduler.needs_refresh: "true", "false", or "raised" when
\* datetime.fromisoformat rejects the cached timestamp
needs_refresh ==
    IF current_timestamp = None THEN "true"
    ELSE IF ~IsIso(current_timestamp) THEN "raised"
    ELSE LET timestamp == fromisoformat(current_timestamp)
             age == now - timestamp * TicksPerHour
         IN  IF age > TicksPerHour THEN "true"
             ELSE IF Len(get_missing_models(timestamp, get_enabled_ai_model_names)) > 0
                  THEN "true"
                  ELSE "false"

\* WeatherScheduler.start up to scheduler.start(): add_job, needs_refresh, job.modify
StartCheck ==
    /\ app = "loaded"
    /\ needs' = needs_refresh
    /\ app' = IF needs' = "raised" THEN "failed" ELSE "checked"
    /\ next_run_time' = IF needs' = "true" THEN Some(now) ELSE None
    /\ UNCHANGED <<genVars, hello, call, thr, tree>>
    /\ UNCHANGED <<enabled, now, ymDirs, archive, current_timestamp, current_weather,
                   current_visualizations, visualization_status, active_connections,
                   conn, job, skipped, last>>

SchedulerStart_recomputes ==
    /\ app = "checked"
    /\ app' = "running"
    /\ next_run_time' = Some(NextFireTime(now))
    /\ UNCHANGED <<genVars, hello, call, thr, tree>>
    /\ UNCHANGED <<enabled, now, ymDirs, archive, current_timestamp, current_weather,
                   current_visualizations, visualization_status, active_connections,
                   conn, needs, job, skipped, last>>

\* scheduler.start(): a job without next_run_time gets the trigger's next fire time
SchedulerStart ==
    /\ app = "checked"
    /\ app' = "running"
    /\ next_run_time' = IF next_run_time = None THEN Some(NextFireTime(now))
                        ELSE next_run_time
    /\ UNCHANGED <<genVars, hello, call, thr, tree>>
    /\ UNCHANGED <<enabled, now, ymDirs, archive, current_timestamp, current_weather,
                   current_visualizations, visualization_status, active_connections,
                   conn, needs, job, skipped, last>>

----------------------------------------------------------------------------
(* The scheduler's clock and its executor *)

Running == {i \in Slots : job[i].pc # "idle"}

Due == app = "running" /\ next_run_time # None /\ next_run_time[1] <= now

Tick ==
    /\ app = "running"
    /\ ~Due
    /\ now < MaxTime
    /\ now' = now + 1
    /\ UNCHANGED <<genVars, hello, call, thr, tree>>
    /\ UNCHANGED <<enabled, ymDirs, archive, current_timestamp, current_weather,
                   current_visualizations, visualization_status, active_connections,
                   conn, app, needs, next_run_time, job, skipped, last>>

\* The due job is submitted: it runs unless max_instances instances already run.
\* refresh_weather starts: the timestamp is "now" truncated to the hour.
Fire ==
    /\ Due
    /\ next_run_time' = Some(NextFireTime(now))
    /\ IF Cardinality(Running) < max_instances
       THEN LET i == CHOOSE s \in Slots \ Running : \A t \in Slots \ Running : s <= t
            IN  /\ job' = [job EXCEPT ![i] =
                              [IdleJob EXCEPT !.pc = "fetch", !.ts = HourOf(now),
                                              !.snap = Snapshot,
                                              !.prev = last.outcome]]
                /\ last' = NoLast
                /\ UNCHANGED skipped
       ELSE /\ skipped' = skipped + 1
            /\ UNCHANGED <<job, last>>
    /\ UNCHANGED <<genVars, hello, call, thr, tree>>
    /\ UNCHANGED <<enabled, now, ymDirs, archive, current_timestamp, current_weather,
                   current_visualizations, visualization_status, active_connections,
                   conn, app, needs>>

\* try_refresh_weather returns (after logging the exception, if any)
EndJob(i, outcome) ==
    /\ job' = [job EXCEPT ![i] = IdleJob]
    /\ last' = [outcome |-> outcome, ts |-> job[i].ts, log |-> job[i].log,
                snap |-> job[i].snap]

----------------------------------------------------------------------------
(* WeatherScheduler.refresh_weather, one action per await *)

Payloads == {"p1"}

FetchReturn(i) ==
    /\ job[i].pc = "fetch"
    /\ \E p \in Payloads :
          job' = [job EXCEPT ![i].pc = "save_metadata", ![i].wj = Some(p)]
    /\ UNCHANGED <<genVars, hello, call, thr, tree>>
    /\ UNCHANGED <<enabled, now, ymDirs, archive, current_timestamp, current_weather,
                   current_visualizations, visualization_status, active_connections,
                   conn, app, needs, next_run_time, skipped, last>>

FetchRaise_after_update(i) ==
    /\ job[i].pc = "fetch"
    /\ EndJob(i, "fetch_failed")
    /\ current_timestamp' = isoformat(job[i].ts)
    /\ UNCHANGED <<genVars, hello, call, thr, tree>>
    /\ UNCHANGED <<enabled, now, ymDirs, archive, current_weather,
                   current_visualizations, visualization_status, active_connections,
                   conn, app, needs, next_run_time, skipped>>

\* get_current_weather raises: refresh_weather is abandoned at its first await
FetchRaise(i) ==
    /\ job[i].pc = "fetch"
    /\ EndJob(i, "fetch_failed")
    /\ UNCHANGED <<genVars, hello, call, thr, tree>>
    /\ UNCHANGED <<enabled, now, ymDirs, archive, current_timestamp, current_weather,
                   current_visualizations, visualization_status, active_connections,
                   conn, app, needs, next_run_time, skipped>>

SaveMetadata(i) ==
    /\ job[i].pc = "save_metadata"
    /\ WriteFile(job[i].ts, MetadataFile, <<"json", isoformat(job[i].ts)>>)
    /\ job' = [job EXCEPT ![i].pc = "save_weather"]
    /\ UNCHANGED <<genVars, hello, call, thr, tree>>
    /\ UNCHANGED <<enabled, now, current_timestamp, current_weather,
                   current_visualizations, visualization_status, active_connections,
                   conn, app, needs, next_run_time, skipped, last>>

\* an archive write raises OSError: refresh_weather is abandoned
PersistRaise(i) ==
    /\ job[i].pc \in {"save_metadata", "save_weather"}
    /\ EndJob(i, "persist_failed")
    /\ UNCHANGED <<genVars, hello, call, thr, tree>>
    /\ UNCHANGED <<enabled, now, ymDirs, archive, current_timestamp, current_weather,
                   current_visualizations, visualization_status, active_connections,
                   conn, app, needs, next_run_time, skipped>>

\* refresh_weather's broadcasts, in program order: broadcast_weather, then
\* broadcast_visualization for each enabled model
BroadcastPlan_weather_last ==
    [n \in 1 .. Len(get_enabled_ai_model_names) |->
        <<"viz", get_enabled_ai_model_names[n]>>] \o << <<"weather", <<>>>> >>

BroadcastPlan ==
    << <<"weather", <<>>>> >> \o
    [n \in 1 .. Len(get_enabled_ai_model_names) |->
        <<"viz", get_enabled_ai_model_names[n]>>]

MessageFor(entry) ==
    IF entry[1] = "weather" THEN make_weather_message
    ELSE make_visualization_message(entry[2])

\* ConnectionManager.broadcast is entered with the k-th message of the plan (a
\* None message returns at once); past the plan, generate_all is called
EnterWith(j, k, msg) ==
    IF k <= Len(BroadcastPlan)
    THEN [j EXCEPT !.pc = "broadcast", !.k = k, !.msg = msg, !.idx = 1,
                   !.disc = {}, !.sent = <<>>, !.at0 = active_connections,
                   !.log = IF msg = None THEN @ ELSE Append(@, msg[1])]
    ELSE [j EXCEPT !.pc = "generate_all", !.k = k, !.msg = None, !.idx = 0,
                   !.disc = {}, !.sent = <<>>, !.at0 = <<>>]

EnterBroadcast(j, k) ==
    EnterWith(j, k, IF k <= Len(BroadcastPlan) THEN MessageFor(BroadcastPlan[k])
                    ELSE None)

\* save_weather returns; update_timestamp, update_weather; broadcast_weather begins
SaveWeather(i) ==
    /\ job[i].pc = "save_weather"
    /\ WriteFile(job[i].ts, WeatherFile, <<"json", job[i].wj[1]>>)
    /\ current_timestamp' = isoformat(job[i].ts)
    /\ current_weather' = Some(job[i].wj[1])
    /\ UNCHANGED <<genVars, hello, call, thr, tree>>
    /\ UNCHANGED <<enabled, now, current_visualizations, visualization_status,
                   active_connections, conn, app, needs, next_run_time, skipped, last>>
    /\ job' = [job EXCEPT ![i] = EnterWith(job[i], 1, MessageFor(BroadcastPlan[1])')]

\* observer o is sent a message while its connect() is still running
Received(o, from, msg) ==
    IF conn[o] = "init"
    THEN [hello EXCEPT ![o].got = Append(@, <<from, msg[1], MsgKey(msg)>>)]
    ELSE hello

BroadcastSend_raises(i) ==
    /\ job[i].pc = "broadcast"
    /\ job[i].msg # None
    /\ job[i].idx <= Len(active_connections)
    /\ \E ok \in BOOLEAN :
          IF ok
          THEN /\ job' = [job EXCEPT ![i].idx = @ + 1,
                                     ![i].sent = Append(@, active_connections[job[i].idx])]
               /\ hello' = Received(active_connections[job[i].idx],
                                    "broadcast", job[i].msg[1])
               /\ UNCHANGED last
          ELSE /\ EndJob(i, "send_failed")
               /\ UNCHANGED hello
    /\ UNCHANGED <<genVars, call, thr, tree>>
    /\ UNCHANGED <<enabled, now, ymDirs, archive, current_timestamp, current_weather,
                   current_visualizations, visualization_status, active_connections,
                   conn, app, needs, next_run_time, skipped>>

\* ConnectionManager.broadcast: one connection.send_json of the loop, which
\* returns or raises
BroadcastSend(i) ==
    /\ job[i].pc = "broadcast"
    /\ job[i].msg # None
    /\ job[i].idx <= Len(active_connections)
    /\ \E ok \in BOOLEAN :
          /\ job' = [job EXCEPT ![i].idx = @ + 1,
                                ![i].sent = IF ok
                                            THEN Append(@, active_connections[job[i].idx])
                                            ELSE @,
                                ![i].disc = IF ok THEN @
                                            ELSE @ \cup {active_connections[job[i].idx]}]
          /\ hello' = IF ok THEN Received(active_connections[job[i].idx],
                                           "broadcast", job[i].msg[1])
                      ELSE hello
    /\ UNCHANGED <<genVars, call, thr, tree>>
    /\ UNCHANGED <<enabled, now, ymDirs, archive, current_timestamp, current_weather,
                   current_visualizations, visualization_status, active_connections,
                   conn, app, needs, next_run_time, skipped, last>>

BroadcastEnd_keeps_failed(i) ==
    /\ job[i].pc = "broadcast"
    /\ job[i].msg = None \/ job[i].idx > Len(active_connections)
    /\ job' = [job EXCEPT ![i] = EnterBroadcast(job[i], job[i].k + 1)]
    /\ UNCHANGED <<genVars, hello, call, thr, tree>>
    /\ UNCHANGED <<enabled, now, ymDirs, archive, current_timestamp, current_weather,
                   current_visualizations, visualization_status, active_connections,
                   conn, app, needs, next_run_time, skipped, last>>

\* ConnectionManager.broadcast returns: the loop is over and the failed
\* connections are removed; refresh_weather goes on to its next broadcast
BroadcastEnd(i) ==
    /\ job[i].pc = "broadcast"
    /\ job[i].msg = None \/ job[i].idx > Len(active_connections)
    /\ active_connections' = RemoveAll(active_connections, job[i].disc)
    /\ LET j == EnterBroadcast(job[i], job[i].k + 1)
       IN  job' = [job EXCEPT ![i] =
                     [j EXCEPT !.at0 = IF j.pc = "broadcast"
                                       THEN active_connections' ELSE <<>>]]
    /\ UNCHANGED <<genVars, hello, call, thr, tree>>
    /\ UNCHANGED <<enabled, now, ymDirs, archive, current_timestamp, current_weather,
                   current_visualizations, visualization_status, conn, app, needs,
                   next_run_time, skipped, last>>

\* self.ai_manager.generate_all(weather_json, on_complete=...): generate_all has
\* no parameter on_complete, the call raises TypeError, which
\* try_refresh_weather logs
GenerateAllCall(i) ==
    /\ job[i].pc = "generate_all"
    /\ EndJob(i, "refresh_failed")
    /\ UNCHANGED <<genVars, hello, call, thr, tree>>
    /\ UNCHANGED <<enabled, now, ymDirs, archive, current_timestamp, current_weather,
                   current_visualizations, visualization_status, active_connections,
                   conn, app, needs, next_run_time, skipped>>

----------------------------------------------------------------------------
(* ConnectionManager.handle *)

\* connect: accept, append to the live list
Connect(o) ==
    /\ app = "running"
    /\ conn[o] = "new"
    /\ conn' = [conn EXCEPT ![o] = "open"]
    /\ active_connections' = Append(active_connections, o)
    /\ UNCHANGED <<genVars, hello, call, thr, tree>>
    /\ UNCHANGED <<enabled, now, ymDirs, archive, current_timestamp, current_weather,
                   current_visualizations, visualization_status, app, needs,
                   next_run_time, job, skipped, last>>

\* WebSocketDisconnect or RuntimeError from receive(): disconnect
Disconnect(o) ==
    /\ conn[o] = "open"
    /\ conn' = [conn EXCEPT ![o] = "closed"]
    /\ active_connections' = Remove(active_connections, o)
    /\ UNCHANGED <<genVars, hello, call, thr, tree>>
    /\ UNCHANGED <<enabled, now, ymDirs, archive, current_timestamp, current_weather,
                   current_visualizations, visualization_status, app, needs,
                   next_run_time, job, skipped, last>>

----------------------------------------------------------------------------

Next ==
    \/ LoadFromArchive
    \/ StartCheck
    \/ SchedulerStart
    \/ Tick
    \/ Fire
    \/ \E i \in Slots : FetchReturn(i)
    \/ \E i \in Slots : FetchRaise(i)
    \/ \E i \in Slots : SaveMetadata(i)
    \/ \E i \in Slots : PersistRaise(i)
    \/ \E i \in Slots : SaveWeather(i)
    \/ \E i \in Slots : BroadcastSend(i)
    \/ \E i \in Slots : BroadcastEnd(i)
    \/ \E i \in Slots : GenerateAllCall(i)
    \/ \E o \in Observers : Connect(o)
    \/ \E o \in Observers : Disconnect(o)

Spec == Init /\ [][Next]_vars

----------------------------------------------------------------------------
(* ConnectionManager.handle and connect, one action per await, beside a     *)
(* refresh cycle that broadcasts                                            *)

make_config_info_message == Some(<<"config_info", get_enabled_ai_model_names>>)

\* connect sends config_info, the weather message, then one visualization
\* message per enabled model
InitialPlan ==
    << <<"config", <<>>>>, <<"weather", <<>>>> >>
       \o [i \in 1 .. Len(get_enabled_ai_model_names) |->
              <<"viz", get_enabled_ai_model_names[i]>>]

InitialMessage(entry) ==
    IF entry[1] = "config" THEN make_config_info_message ELSE MessageFor(entry)

\* send_to_client returns at once for a None message: the next entry of the
\* plan after the k-th that has a message, or Len(InitialPlan) + 1
NextEntry(k) ==
    LET js == {j \in (k + 1) .. Len(InitialPlan) : InitialMessage(InitialPlan[j]) # None}
    IN  IF js = {} THEN Len(InitialPlan) + 1
        ELSE CHOOSE j \in js : \A i \in js : j <= i

\* send_to_client(message, websocket) for entry j of the plan: send_json
\* returns, or raises and the websocket is disconnected
SendToClient(o, j, ok, connections) ==
    /\ hello' = [hello EXCEPT ![o] =
                    [k |-> j,
                     failed |-> @.failed \/ ~ok,
                     got |-> IF ok
                             THEN Append(@.got,
                                         <<"connect", InitialMessage(InitialPlan[j])[1][1],
                                           MsgKey(InitialMessage(InitialPlan[j])[1])>>)
                             ELSE @.got]]
    /\ active_connections' = IF ok THEN connections ELSE Remove(connections, o)

\* websocket.accept() returns: the websocket is appended to the live list and
\* the first message of the plan is sent
Accept(o) ==
    /\ app = "running"
    /\ conn[o] = "new"
    /\ conn' = [conn EXCEPT ![o] = "init"]
    /\ \E ok \in BOOLEAN :
          SendToClient(o, NextEntry(0), ok, Append(active_connections, o))
    /\ UNCHANGED <<genVars, call, thr, tree>>
    /\ UNCHANGED <<enabled, now, ymDirs, archive, current_timestamp, current_weather,
                   current_visualizations, visualization_status, app, needs,
                   next_run_time, job, skipped, last>>

\* the send that connect awaited is over: the next message of the plan is
\* made from the State Cache and sent, or connect returns and handle waits
\* in websocket.receive()
InitialSend(o) ==
    /\ conn[o] = "init"
    /\ LET j == NextEntry(hello[o].k)
       IN  IF j <= Len(InitialPlan)
           THEN /\ \E ok \in IF hello[o].failed THEN {FALSE} ELSE BOOLEAN :
                      SendToClient(o, j, ok, active_connections)
                /\ UNCHANGED conn
           ELSE /\ conn' = [conn EXCEPT ![o] = "open"]
                /\ UNCHANGED <<hello, active_connections>>
    /\ UNCHANGED <<genVars, call, thr, tree>>
    /\ UNCHANGED <<enabled, now, ymDirs, archive, current_timestamp, current_weather,
                   current_visualizations, visualization_status, app, needs,
                   next_run_time, job, skipped, last>>

\* the process runs, its scheduler has a cycle due, one observer is connected,
\* and the State Cache is empty or holds what load_from_archive read from a
\* complete cycle of hour 0
HubInit ==
    /\ enabled \in {S \in SUBSET Workers : Cardinality(S) <= MaxEnabled}
    /\ now = TicksPerHour
    /\ \E loaded \in BOOLEAN :
          /\ archive = [h \in Hours |->
                IF h = 0 /\ loaded
                THEN [exists |-> TRUE,
                      files |-> [f \in FileNames |->
                          IF f = MetadataFile THEN Some(OldMeta)
                          ELSE IF f = WeatherFile THEN Some(OldWeather)
                          ELSE IF f \in {get_model_filename(n) : n \in enabled}
                               THEN Some(OldHtml) ELSE None]]
                ELSE NoDir]
          /\ ymDirs = IF loaded THEN {YearMonth(0)} ELSE {}
          /\ current_timestamp = IF loaded THEN isoformat(0) ELSE None
          /\ current_weather = IF loaded THEN Some("p0") ELSE None
          /\ current_visualizations = [w \in IF loaded THEN enabled ELSE {} |-> OldHtml]
          /\ visualization_status =
                [w \in IF loaded THEN enabled ELSE {} |-> "up_to_date"]
    /\ active_connections = <<"o1">>
    /\ conn = [o \in Observers |-> IF o = "o1" THEN "open" ELSE "new"]
    /\ app = "running"
    /\ needs = "true"
    /\ next_run_time = Some(now)
    /\ job = [i \in Slots |-> IdleJob]
    /\ skipped = 0
    /\ last = NoLast
    /\ max_concurrent = 0
    /\ gen = "idle"
    /\ task = [w \in Workers |-> NoTask]
    /\ sem = 0
    /\ results = <<>>
    /\ cbDone = None
    /\ hello = [o \in Observers |-> NoHello]
    /\ call = NoCall
    /\ thr = NoThr
    /\ tree = NoTree

NextHub ==
    \/ Fire
    \/ \E i \in Slots : FetchReturn(i)
    \/ \E i \in Slots : SaveMetadata(i)
    \/ \E i \in Slots : SaveWeather(i)
    \/ \E i \in Slots : BroadcastSend(i)
    \/ \E i \in Slots : BroadcastEnd(i)
    \/ \E i \in Slots : GenerateAllCall(i)
    \/ \E o \in Observers : Accept(o)
    \/ \E o \in Observers : InitialSend(o)
    \/ \E o \in Observers : Disconnect(o)

SpecHub == HubInit /\ [][NextHub]_vars

----------------------------------------------------------------------------
(* ArchiveManager's operations called one after another on the directory   *)
(* of hour CycleHour, which starts with any set of files, complete or cut  *)
(* short by a crash between open(path, "w") and the write                  *)

ArchPayloads == {"p1", "p2"}

\* what a complete file of the cycle directory holds
Complete_file(f) ==
    IF f = MetadataFile THEN <<"json", isoformat(CycleHour)>>
    ELSE IF f = WeatherFile THEN <<"json", "p1">>
    ELSE OldHtml

\* a directory whose files are absent, complete or cut short, as st says
ArchDir(st) ==
    [exists |-> TRUE,
     files |-> [f \in FileNames |->
                   IF st[f] = "absent" THEN None
                   ELSE IF st[f] = "complete" THEN Some(Complete_file(f))
                   ELSE Some(Truncated)]]

FileStates ==
    {st \in [FileNames -> {"absent", "complete", "cut"}] : st[RawDataFile] = "absent"}

ArchInit ==
    /\ enabled \in {S \in SUBSET Workers : Cardinality(S) <= MaxEnabled}
    /\ now = CycleHour * TicksPerHour
    /\ \/ /\ archive = [h \in Hours |-> NoDir]
          /\ ymDirs = {}
       \/ \E st \in FileStates :
             /\ archive = [h \in Hours |-> IF h = CycleHour THEN ArchDir(st) ELSE NoDir]
             /\ ymDirs = {YearMonth(CycleHour)}
    /\ current_timestamp = None
    /\ current_weather = None
    /\ current_visualizations = <<>>
    /\ visualization_status = <<>>
    /\ active_connections = <<>>
    /\ conn = [o \in Observers |-> "new"]
    /\ app = "init"
    /\ needs = "none"
    /\ next_run_time = None
    /\ job = [i \in Slots |-> IdleJob]
    /\ skipped = 0
    /\ last = NoLast
    /\ max_concurrent = 0
    /\ gen = "idle"
    /\ task = [w \in Workers |-> NoTask]
    /\ sem = 0
    /\ results = <<>>
    /\ cbDone = None
    /\ hello = [o \in Observers |-> NoHello]
    /\ call = NoCall
    /\ thr = NoThr
    /\ tree = NoTree

ArchFrame == UNCHANGED <<enabled, current_timestamp, current_weather,
                         current_visualizations, visualization_status,
                         active_connections, conn, schedVars, genVars, hello, thr, tree>>

\* a write operation was called with this key and payload and returned
Saved(op, name, payload) ==
    call' = [op |-> op, name |-> name, payload |-> payload,
             rep |-> (call.op = op /\ call.name = name /\ call.payload = payload),
             raised |-> FALSE, result |-> None]

\* ArchiveManager.save_metadata(timestamp, models, prompt)
save_metadata ==
    /\ WriteFile(CycleHour, MetadataFile, <<"json", isoformat(CycleHour)>>)
    /\ Saved("save_metadata", <<>>, <<"json", isoformat(CycleHour)>>)
    /\ ArchFrame

\* ArchiveManager.save_weather(timestamp, weather_json)
save_weather(p) ==
    /\ WriteFile(CycleHour, WeatherFile, <<"json", p>>)
    /\ Saved("save_weather", <<>>, <<"json", p>>)
    /\ ArchFrame

\* ArchiveManager.save_visualization(timestamp, model_name, html)
save_visualization(w, html) ==
    /\ WriteFile(CycleHour, get_model_filename(w), html)
    /\ Saved("save_visualization", w, html)
    /\ ArchFrame

\* ArchiveManager.load_hour(timestamp, models) with the enabled model names:
\* None without the directory; json.loads raises on a file cut short
load_hour ==
    /\ call' = [op |-> "load_hour", name |-> <<>>, payload |-> <<>>, rep |-> FALSE,
                raised |-> archive[CycleHour].exists /\ LoadRaises(CycleHour),
                result |-> IF ~archive[CycleHour].exists \/ LoadRaises(CycleHour)
                           THEN None
                           ELSE Some(_load_hour_data(CycleHour,
                                                     get_enabled_ai_model_names))]
    /\ UNCHANGED <<ymDirs, archive>>
    /\ ArchFrame

NextArch ==
    \/ save_metadata
    \/ \E p \in ArchPayloads : save_weather(p)
    \/ \E w \in Workers : \E n \in 0 .. MaxChunks : save_visualization(w, Html(w, n))
    \/ load_hour

SpecArch == ArchInit /\ [][NextArch]_vars

----------------------------------------------------------------------------
(* One generate_with_callback task and its model_chunk_callback, seen by    *)
(* the clock that datetime.now() reads: t is the time since the task set    *)
(* last_update at its start                                                 *)

THROTTLE == 5

SecondsPerDay == 86400

\* timedelta.seconds: the seconds of the difference without its whole days
seconds(delta) == delta % SecondsPerDay

ThrottleGate_always(delta) == TRUE

\* (datetime.now() - last_update).seconds >= 5
ThrottleGate(delta) == seconds(delta) >= THROTTLE

ThrottleInit ==
    /\ ArchInit
    /\ archive = [h \in Hours |-> NoDir]
    /\ enabled = {}

ThrottleFrame == UNCHANGED <<enabled, ymDirs, archive, current_timestamp,
                             current_weather, current_visualizations,
                             visualization_status, active_connections, conn,
                             schedVars, genVars, hello, call, tree>>

\* a second passes
ThrottleTick ==
    /\ thr.t < MaxClock
    /\ thr' = [thr EXCEPT !.t = @ + 1]
    /\ ThrottleFrame

\* a day passes without a chunk
ThrottleDay ==
    /\ thr.t < MaxClock
    /\ thr' = [thr EXCEPT !.t = @ + SecondsPerDay]
    /\ ThrottleFrame

\* the backend streams a chunk and model_chunk_callback is awaited: past the
\* gate it sets last_update and awaits on_update with the accumulated output
ThrottleChunk ==
    /\ thr.chunks < MaxStreamed
    /\ LET open == ThrottleGate(thr.t - thr.last_update)
       IN  thr' = [thr EXCEPT !.chunks = @ + 1,
                              !.first = IF thr.chunks = 0 THEN thr.t ELSE @,
                              !.latest = thr.t,
                              !.last_update = IF open THEN thr.t ELSE @,
                              !.mark = IF open THEN thr.t ELSE @,
                              !.fwd = IF open THEN @ + 1 ELSE @]
    /\ ThrottleFrame

NextThrottle ==
    \/ ThrottleTick
    \/ ThrottleDay
    \/ ThrottleChunk

SpecThrottle == ThrottleInit /\ [][NextThrottle]_vars

----------------------------------------------------------------------------
(* ArchiveManager.get_hourly_dir and find_latest_dir on directory names:   *)
(* cycles of several years, months, days and hours are written in any      *)
(* order, and the latest directory is looked up by name. A name is the     *)
(* sequence of its characters' code points.                                *)

MaxWrites == 3

Years == {2025, 2026}
Months == {2, 10, 12}
Days == {9, 10}
HoursOfDay == {9, 23}

Timestamps == [year : Years, month : Months, day : Days, hour : HoursOfDay]

\* the code points of "0" and of "-"
Zero == 48
Dash == 45

Pad2_unpadded(n) ==
    IF n < 10 THEN <<Zero + n>> ELSE <<Zero + (n \div 10), Zero + (n % 10)>>

\* strftime("%m"), "%d", "%H": two digits, zero-padded
Pad2(n) == <<Zero + (n \div 10), Zero + (n % 10)>>

\* strftime("%Y") for a year of four digits
Pad4(y) == <<Zero + (y \div 1000), Zero + ((y \div 100) % 10),
             Zero + ((y \div 10) % 10), Zero + (y % 10)>>

\* get_hourly_dir: the names year_month and day_hour under base_dir
get_hourly_dir(timestamp) ==
    <<Pad4(timestamp.year) \o <<Dash>> \o Pad2(timestamp.month),
      Pad2(timestamp.day) \o <<Dash>> \o Pad2(timestamp.hour)>>

\* a < b for Python strings
StrLess(a, b) ==
    \/ Len(a) < Len(b) /\ \A n \in 1 .. Len(a) : a[n] = b[n]
    \/ \E n \in 1 .. Len(a) :
          /\ n <= Len(b)
          /\ a[n] < b[n]
          /\ \A m \in 1 .. (n - 1) : a[m] = b[m]

\* max(names, key=lambda p: p.name)
MaxName(names) == CHOOSE x \in names : \A y \in names : y = x \/ StrLess(y, x)

\* find_latest_dir on the directories of tree
find_latest_dir_by_name ==
    LET year_months == {d[1] : d \in tree.dirs}
    IN  IF year_months = {} THEN None
        ELSE LET latest_year_month == MaxName(year_months)
                 day_hours == {d[2] : d \in {e \in tree.dirs :
                                                e[1] = latest_year_month}}
             IN  IF day_hours = {} THEN None
                 ELSE Some(<<latest_year_month, MaxName(day_hours)>>)

LatestInit == ThrottleInit

LatestFrame == UNCHANGED <<enabled, ymDirs, archive, current_timestamp,
                           current_weather, current_visualizations,
                           visualization_status, active_connections, conn,
                           schedVars, genVars, hello, thr>>

\* a save_* operation for timestamp t: hour_dir.mkdir(parents=True, exist_ok=True)
MakeHourDir(t) ==
    /\ Cardinality(tree.cycles \cup {t}) <= MaxWrites
    /\ tree' = [dirs |-> tree.dirs \cup {get_hourly_dir(t)},
                cycles |-> tree.cycles \cup {t}]
    /\ call' = [NoCall EXCEPT !.op = "mkdir"]
    /\ LatestFrame

\* find_latest_dir is called
FindLatestDir ==
    /\ call' = [NoCall EXCEPT !.op = "find_latest_dir",
                              !.result = find_latest_dir_by_name]
    /\ UNCHANGED tree
    /\ LatestFrame

NextLatest ==
    \/ \E t \in Timestamps : MakeHourDir(t)
    \/ FindLatestDir

SpecLatest == LatestInit /\ [][NextLatest]_vars

----------------------------------------------------------------------------
(* AIManager.generate_all (ai/manager.py), called with an on_update         *)
(* callback that does what refresh_weather's on_visualization_complete      *)
(* does, for the cycle of hour CycleHour                                    *)

TaskNames_all_models == ai_models

\* [... for m in self.settings.ai_models if m.enabled]
TaskNames == get_enabled_ai_model_names

Semaphore_one_more == max_concurrent + 1

\* asyncio.Semaphore(max_concurrent)
SemaphoreValue == max_concurrent

\* the state a cycle of hour CycleHour has reached when it calls generate_all:
\* metadata and weather are saved and cached; the cache holds the
\* visualizations loaded at startup, if an earlier run left any
GenInit ==
    /\ enabled \in {S \in SUBSET Workers : Cardinality(S) <= MaxEnabled}
    /\ max_concurrent \in 0 .. MaxConcurrent
    /\ now = CycleHour * TicksPerHour
    /\ ymDirs = {YearMonth(0), YearMonth(CycleHour)}
    /\ \E loaded \in {{}, enabled} :
          /\ archive = [h \in Hours |->
                IF h = 0
                THEN [exists |-> TRUE,
                      files |-> [f \in FileNames |->
                          IF f = MetadataFile THEN Some(OldMeta)
                          ELSE IF f = WeatherFile THEN Some(OldWeather)
                          ELSE IF f \in {get_model_filename(n) : n \in loaded}
                               THEN Some(OldHtml) ELSE None]]
                ELSE IF h = CycleHour
                THEN [exists |-> TRUE,
                      files |-> [f \in FileNames |->
                          IF f = MetadataFile THEN Some(<<"json", isoformat(CycleHour)>>)
                          ELSE IF f = WeatherFile THEN Some(<<"json", "p1">>)
                          ELSE None]]
                ELSE NoDir]
          /\ current_visualizations = [w \in loaded |-> OldHtml]
          /\ visualization_status = [w \in loaded |-> "up_to_date"]
    /\ current_timestamp = isoformat(CycleHour)
    /\ current_weather = Some("p1")
    /\ active_connections = <<"o1">>
    /\ conn = [o \in Observers |-> IF o = "o1" THEN "open" ELSE "new"]
    /\ app = "running"
    /\ needs = "true"
    /\ next_run_time = Some(NextFireTime(now))
    /\ job = [i \in Slots |-> IdleJob]
    /\ skipped = 0
    /\ last = NoLast
    /\ gen = "idle"
    /\ task = [w \in Workers |-> NoTask]
    /\ sem = 0
    /\ results = <<>>
    /\ cbDone = None
    /\ hello = [o \in Observers |-> NoHello]
    /\ call = NoCall
    /\ thr = NoThr
    /\ tree = NoTree

GenFrame == UNCHANGED <<enabled, max_concurrent, conn, schedVars, current_timestamp,
                        current_weather, visualization_status, hello, call, thr, tree>>

\* generate_all up to "await asyncio.gather(*tasks)": the semaphore is made
\* when max_concurrent > 0 and one task is made per enabled model
CallGenerateAll ==
    /\ gen = "idle"
    /\ gen' = "running"
    /\ sem' = IF max_concurrent > 0 THEN SemaphoreValue ELSE 0
    /\ task' = [w \in Workers |->
                  IF \E i \in DOMAIN TaskNames : TaskNames[i] = w
                  THEN [NoTask EXCEPT !.pc = "pending"] ELSE NoTask]
    /\ cbDone' = None
    /\ GenFrame
    /\ UNCHANGED <<ymDirs, archive, current_visualizations, active_connections, results>>

\* "await on_update(model_name, html)": on_visualization_complete runs up to
\* the aiofiles.open of save_visualization
EnterCallback(t, html, ret) ==
    [t EXCEPT !.pc = "cb_open", !.html = html, !.ret = ret, !.msg = None,
              !.idx = 0, !.disc = {},
              !.since = IF ret = "backend" THEN @ ELSE 0,
              !.ups = Append(@, <<ret, html>>)]

\* the task is over: "async with semaphore" gives the slot back
Release == IF max_concurrent > 0 THEN sem + 1 ELSE sem

StartTask_always_limited(w) ==
    /\ task[w].pc = "pending"
    /\ sem > 0
    /\ sem' = sem - 1
    /\ \E found \in BOOLEAN :
          task' = [task EXCEPT ![w] =
                      IF found THEN [@ EXCEPT !.pc = "backend", !.since = 0]
                      ELSE EnterCallback(@, ErrorHtml(w, "provider"), "except")]
    /\ cbDone' = None
    /\ GenFrame
    /\ UNCHANGED <<ymDirs, archive, current_visualizations, active_connections,
                   gen, results>>

\* a task begins (generate_limited has got a slot): generate_with_callback
\* looks the provider up, notes last_update and awaits provider.generate_html
StartTask(w) ==
    /\ task[w].pc = "pending"
    /\ max_concurrent > 0 => sem > 0
    /\ sem' = IF max_concurrent > 0 THEN sem - 1 ELSE sem
    /\ \E found \in BOOLEAN :
          task' = [task EXCEPT ![w] =
                      IF found THEN [@ EXCEPT !.pc = "backend", !.since = 0]
                      ELSE EnterCallback(@, ErrorHtml(w, "provider"), "except")]
    /\ cbDone' = None
    /\ GenFrame
    /\ UNCHANGED <<ymDirs, archive, current_visualizations, active_connections,
                   gen, results>>

\* the backend streams a chunk: model_chunk_callback forwards the accumulated
\* output when at least THROTTLE seconds have passed since last_update
Chunk(w) ==
    /\ task[w].pc = "backend"
    /\ task[w].acc < MaxChunks
    /\ task' = [task EXCEPT ![w] =
                  IF ThrottleGate(@.since)
                  THEN EnterCallback([@ EXCEPT !.acc = @ + 1, !.since = 0],
                                     Html(w, task[w].acc + 1), "backend")
                  ELSE [@ EXCEPT !.acc = @ + 1]]
    /\ cbDone' = None
    /\ GenFrame
    /\ UNCHANGED <<ymDirs, archive, current_visualizations, active_connections,
                   gen, sem, results>>

\* provider.generate_html returns the accumulated output: the final on_update
Complete(w) ==
    /\ task[w].pc = "backend"
    /\ task' = [task EXCEPT ![w] =
                  EnterCallback([@ EXCEPT !.final = Some(Html(w, task[w].acc))],
                                Html(w, task[w].acc), "final")]
    /\ cbDone' = None
    /\ GenFrame
    /\ UNCHANGED <<ymDirs, archive, current_visualizations, active_connections,
                   gen, sem, results>>

BackendError_unreported(w) ==
    /\ task[w].pc = "backend"
    /\ task' = [task EXCEPT ![w] = [@ EXCEPT !.pc = "done", !.since = 0,
                                              !.html = ErrorHtml(w, "backend")]]
    /\ sem' = IF max_concurrent > 0 THEN sem + 1 ELSE sem
    /\ cbDone' = None
    /\ GenFrame
    /\ UNCHANGED <<ymDirs, archive, current_visualizations, active_connections,
                   gen, results>>

\* provider.generate_html raises: "except Exception" makes the error page and
\* awaits on_update with it
BackendError(w) ==
    /\ task[w].pc = "backend"
    /\ task' = [task EXCEPT ![w] = EnterCallback(@, ErrorHtml(w, "backend"), "except")]
    /\ cbDone' = None
    /\ GenFrame
    /\ UNCHANGED <<ymDirs, archive, current_visualizations, active_connections,
                   gen, sem, results>>

\* the task is inside asyncio.wait_for: in the backend call or in an on_update
\* that a chunk started
InWaitFor(w) ==
    \/ task[w].pc = "backend"
    \/ task[w].pc \in {"cb_open", "cb_write", "cb_bcast"} /\ task[w].ret = "backend"

Timeout_without_limit(w) ==
    /\ InWaitFor(w)
    /\ FALSE
    /\ UNCHANGED vars

Timeout_uncaught(w) ==
    /\ InWaitFor(w)
    /\ task' = [task EXCEPT ![w] = [@ EXCEPT !.pc = "raised", !.since = 0]]
    /\ sem' = Release
    /\ gen' = IF gen = "running" THEN "raised" ELSE gen
    /\ cbDone' = None
    /\ GenFrame
    /\ UNCHANGED <<ymDirs, archive, current_visualizations, active_connections, results>>

\* asyncio.wait_for times out: what the task awaits is cancelled and
\* TimeoutError reaches "except Exception"
Timeout(w) ==
    /\ InWaitFor(w)
    /\ task' = [task EXCEPT ![w] = EnterCallback(@, ErrorHtml(w, "timeout"), "except")]
    /\ cbDone' = None
    /\ GenFrame
    /\ UNCHANGED <<ymDirs, archive, current_visualizations, active_connections,
                   gen, sem, results>>

\* save_visualization: aiofiles.open(model_path, "w") has truncated the file
CbOpen(w) ==
    /\ task[w].pc = "cb_open"
    /\ WriteFile(CycleHour, get_model_filename(w), Truncated)
    /\ task' = [task EXCEPT ![w].pc = "cb_write"]
    /\ cbDone' = None
    /\ GenFrame
    /\ UNCHANGED <<current_visualizations, active_connections, gen, sem, results>>

\* f.write(html) is done and save_visualization returns; update_visualization;
\* broadcast_visualization makes its message and enters broadcast
CbWrite(w) ==
    /\ task[w].pc = "cb_write"
    /\ WriteFile(CycleHour, get_model_filename(w), task[w].html)
    /\ current_visualizations' =
          [n \in DOMAIN current_visualizations \cup {w} |->
              IF n = w THEN task[w].html ELSE current_visualizations[n]]
    /\ GenFrame
    /\ UNCHANGED <<active_connections, gen, sem, results>>
    /\ cbDone' = None
    /\ task' = [task EXCEPT ![w] = [@ EXCEPT !.pc = "cb_bcast", !.idx = 1,
                                     !.disc = {},
                                     !.msg = make_visualization_message(w)']]

\* save_visualization raises OSError out of on_update: inside the try block
\* "except Exception" takes it and awaits on_update with the error page;
\* inside the except block it leaves generate_with_callback, and gather
\* hands it to the caller of generate_all while the other tasks go on
CbRaise(w) ==
    /\ task[w].pc \in {"cb_open", "cb_write"}
    /\ IF task[w].ret = "except"
       THEN /\ task' = [task EXCEPT ![w] = [@ EXCEPT !.pc = "raised",
                                                     !.cbRaised = TRUE]]
            /\ sem' = Release
            /\ gen' = IF gen = "running" THEN "raised" ELSE gen
       ELSE /\ task' = [task EXCEPT ![w] =
                          EnterCallback(@, ErrorHtml(w, "callback"), "except")]
            /\ UNCHANGED <<sem, gen>>
    /\ cbDone' = None
    /\ GenFrame
    /\ UNCHANGED <<ymDirs, archive, current_visualizations, active_connections, results>>

\* ConnectionManager.broadcast inside on_update: one send_json of the loop
TaskSend(w) ==
    /\ task[w].pc = "cb_bcast"
    /\ task[w].idx <= Len(active_connections)
    /\ \E ok \in BOOLEAN :
          task' = [task EXCEPT ![w].idx = @ + 1,
                               ![w].disc = IF ok THEN @
                                           ELSE @ \cup {active_connections[task[w].idx]}]
    /\ cbDone' = None
    /\ GenFrame
    /\ UNCHANGED <<ymDirs, archive, current_visualizations, active_connections,
                   gen, sem, results>>

\* broadcast returns and with it on_update: after a chunk the backend call
\* goes on, otherwise generate_with_callback returns (model_name, html)
TaskBroadcastEnd(w) ==
    /\ task[w].pc = "cb_bcast"
    /\ task[w].idx > Len(active_connections)
    /\ active_connections' = RemoveAll(active_connections, task[w].disc)
    /\ cbDone' = Some(<<w, task[w].html>>)
    /\ IF task[w].ret = "backend"
       THEN /\ task' = [task EXCEPT ![w] = [@ EXCEPT !.pc = "backend", !.msg = None,
                                                     !.idx = 0, !.disc = {}]]
            /\ sem' = sem
       ELSE /\ task' = [task EXCEPT ![w] = [@ EXCEPT !.pc = "done", !.msg = None,
                                                     !.idx = 0, !.disc = {}]]
            /\ sem' = Release
    /\ GenFrame
    /\ UNCHANGED <<ymDirs, archive, current_visualizations, gen, results>>

\* every task has returned: gather gives the list and generate_all returns
\* dict(results)
GatherReturn ==
    /\ gen = "running"
    /\ \A w \in Workers : task[w].pc \in {"none", "done"}
    /\ gen' = "returned"
    /\ results' = [w \in {v \in Workers : task[v].pc = "done"} |-> task[w].html]
    /\ cbDone' = None
    /\ GenFrame
    /\ UNCHANGED <<ymDirs, archive, current_visualizations, active_connections,
                   task, sem>>

\* a second passes on the clock that datetime.now() reads
SecTick ==
    /\ \E w \in Workers : InWaitFor(w) /\ task[w].since < THROTTLE
    /\ task' = [w \in Workers |->
                  IF InWaitFor(w) /\ task[w].since < THROTTLE
                  THEN [task[w] EXCEPT !.since = @ + 1] ELSE task[w]]
    /\ cbDone' = None
    /\ GenFrame
    /\ UNCHANGED <<ymDirs, archive, current_visualizations, active_connections,
                   gen, sem, results>>

NextGen ==
    \/ CallGenerateAll
    \/ \E w \in Workers : StartTask(w)
    \/ \E w \in Workers : Chunk(w)
    \/ \E w \in Workers : Complete(w)
    \/ \E w \in Workers : BackendError(w)
    \/ \E w \in Workers : Timeout(w)
    \/ \E w \in Workers : CbOpen(w)
    \/ \E w \in Workers : CbWrite(w)
    \/ \E w \in Workers : CbRaise(w)
    \/ \E w \in Workers : TaskSend(w)
    \/ \E w \in Workers : TaskBroadcastEnd(w)
    \/ GatherReturn
    \/ SecTick

SpecGen == GenInit /\ [][NextGen]_vars

\* the event loop runs every coroutine that can go on, a timer that is due
\* fires, and the awaits of on_update (file write, websocket send) come back;
\* a backend call need never respond
GenFairness ==
    /\ WF_vars(CallGenerateAll)
    /\ WF_vars(GatherReturn)
    /\ \A w \in Workers :
          /\ WF_vars(StartTask(w))
          /\ WF_vars(Timeout(w))
          /\ WF_vars(CbOpen(w))
          /\ WF_vars(CbWrite(w))
          /\ WF_vars(TaskSend(w))
          /\ WF_vars(TaskBroadcastEnd(w))

\* generate_all is called for two enabled workers, without a limit or with
\* limit 1, on an empty cache
LiveInit ==
    /\ GenInit
    /\ enabled = {ai_models[1], ai_models[2]}
    /\ max_concurrent <= 1
    /\ current_visualizations = <<>>

SpecGenLive == LiveInit /\ [][NextGen]_vars /\ GenFairness

----------------------------------------------------------------------------
(* Claims about the refresh cycle, checked under Spec *)

\* C1: at every moment at most one execution of refresh_weather is running, and
\* a trigger that fires while a cycle runs starts no second cycle: the running
\* instances are the same before and after it.
C1_SingleFlight ==
    /\ [](Cardinality(Running) <= 1)
    /\ [][(Running # {} /\ next_run_time' # next_run_time) =>
             (Running' = Running /\ skipped' = skipped + 1)]_vars

\* a trigger fired during a running cycle and was refused
C1_Witness == skipped > 0 /\ Running # {}

\* C5: when a cycle whose fetch and archive writes succeeded has ended, the
\* directory of its hour holds the metadata record, rawdata.json and one
\* output artifact per enabled worker.
C5_CyclePostcondition ==
    last.outcome = "refresh_failed" \/ last.outcome = "complete" =>
        /\ Exists(last.ts, MetadataFile)
        /\ Exists(last.ts, RawDataFile)
        /\ \A w \in enabled : Exists(last.ts, get_model_filename(w))

\* C6: in the broadcasts of one cycle, every per-worker visualization_update
\* is preceded by the weather_data broadcast of that cycle.
DataBroadcastFirst(log, ts) ==
    \A n \in DOMAIN log :
        log[n][1] = "visualization_update" =>
            \E m \in 1 .. (n - 1) :
                log[m][1] = "weather_data" /\ log[m][2] = isoformat(ts)

C8_PendingStatus ==
    \A i \in Slots : job[i].pc = "generate_all" =>
        \A w \in enabled :
            /\ w \in DOMAIN visualization_status
            /\ visualization_status[w] = "generating"
            /\ \E n \in DOMAIN job[i].log :
                  /\ job[i].log[n][1] = "visualization_update"
                  /\ job[i].log[n][2] = w
                  /\ job[i].log[n][4] = "generating"

\* C9: while the fetch is pending, and after it has failed, the archive and the
\* State Cache are what they were when the cycle was triggered and the cycle
\* has broadcast nothing; after the failure no instance of the job is running.
C9_FetchFailure ==
    /\ \A i \in Slots : job[i].pc = "fetch" =>
          Snapshot = job[i].snap /\ job[i].log = <<>>
    /\ last.outcome = "fetch_failed" =>
          Snapshot = last.snap /\ last.log = <<>> /\ Running = {}

\* after a failed fetch, with a cycle in the archive, the next trigger has
\* started a cycle again
C9_Witness ==
    \E i \in Slots : job[i].pc = "fetch" /\ job[i].prev = "fetch_failed"
                     /\ ymDirs # {}

\* C10: needs_refresh returns true exactly when no cycle is cached, or the
\* cached cycle is more than one hour old, or an enabled worker's artifact is
\* absent from the cached cycle's directory, and false otherwise.
CachedHour ==
    IF IsIso(current_timestamp) THEN current_timestamp[2] ELSE find_latest_dir[1]

RefreshIsDue ==
    \/ current_timestamp = None
    \/ IsIso(current_timestamp) /\ now - CachedHour * TicksPerHour > TicksPerHour
    \/ \E w \in enabled : archive[CachedHour].files[get_model_filename(w)] = None

C10_NeedsRefresh ==
    app \in {"checked", "failed"} =>
        /\ needs = "true" <=> RefreshIsDue
        /\ needs = "false" <=> ~RefreshIsDue

\* the same, for the calls of needs_refresh that return
C10_WhenItReturns ==
    app = "checked" =>
        /\ needs = "true" <=> RefreshIsDue
        /\ needs = "false" <=> ~RefreshIsDue

\* no cycle has started since the process started
NoCycleYet == Running = {} /\ last.outcome = "none"

\* C11: when needs_refresh returned true at startup, the job is due as soon as
\* the scheduler runs and the first cycle starts before any time passes; when
\* it returned false, the first cycle starts at a cron tick, at the configured
\* minute of the hour, which is later than the start.
C11_StartupTrigger ==
    /\ [](app = "running" /\ NoCycleYet /\ needs = "true" => Due)
    /\ [][NoCycleYet /\ needs = "true" => now' = now]_vars
    /\ [](app = "running" /\ NoCycleYet /\ needs = "false" =>
             /\ next_run_time # None
             /\ next_run_time[1] % TicksPerHour = refresh_minute)
    /\ [][app = "checked" /\ needs = "false" =>
             next_run_time'[1] > now]_vars
    /\ [][NoCycleYet /\ ~NoCycleYet' /\ needs = "false" =>
             now % TicksPerHour = refresh_minute /\ next_run_time = Some(now)]_vars

\* the first cycle runs after needs_refresh returned true, at a time that is
\* not the cron minute
C11_Witness ==
    /\ needs = "true"
    /\ now % TicksPerHour # refresh_minute
    /\ \E i \in Slots : job[i].pc # "idle" /\ job[i].prev = "none"

StatusValues == {"outdated", "generating", "up_to_date"}

\* C20: once a cycle is loaded into the State Cache, by load_from_archive or
\* by a refresh cycle, every enabled worker has an entry in the status mapping
\* and its value is outdated, generating or up_to_date.
C20_StatusCoverage ==
    current_timestamp # None =>
        \A w \in enabled :
            /\ w \in DOMAIN visualization_status
            /\ visualization_status[w] \in StatusValues

\* the entries the status mapping has are of the three values
C20_EntriesAreValid ==
    \A w \in DOMAIN visualization_status : visualization_status[w] \in StatusValues

\* C21: the names that have an output in the State Cache and the names that
\* have a status in it are names of enabled workers, after the startup load
\* and after every step of a cycle.
C21_CacheKeys ==
    /\ DOMAIN current_visualizations \subseteq enabled
    /\ DOMAIN visualization_status \subseteq enabled

\* the cache was loaded from a cycle directory that also holds the artifact
\* of a worker that is not enabled
C21_Witness ==
    /\ app # "init"
    /\ DOMAIN current_visualizations # {}
    /\ \E w \in Workers \ enabled :
          /\ Exists(0, get_model_filename(w))
          /\ \A v \in enabled : get_model_filename(v) # get_model_filename(w)

\* a cycle whose save_metadata or save_weather raised has ended as a failed
\* attempt: no instance runs, the State Cache is what it was, nothing was
\* broadcast, and the archive differs from what it was at most by the
\* metadata record the cycle wrote before
C22_CycleWrites ==
    last.outcome = "persist_failed" =>
        /\ Running = {}
        /\ last.log = <<>>
        /\ <<current_timestamp, current_weather, current_visualizations,
             visualization_status>>
              = <<last.snap[3], last.snap[4], last.snap[5], last.snap[6]>>
        /\ \A h \in Hours : \A f \in FileNames :
              archive[h].files[f] # last.snap[2][h].files[f] =>
                 /\ h = last.ts
                 /\ f = MetadataFile
                 /\ archive[h].files[f] = Some(<<"json", isoformat(last.ts)>>)

\* the hour of the cycle an output was produced for: the artifacts an earlier
\* run left are of hour 0
ProducedFor(html) == IF html = OldHtml THEN 0 ELSE CycleHour

\* the visualization_update for worker w presents an output of another cycle
\* than the cached one as up to date
StaleAsCurrent(w) ==
    LET m == make_visualization_message(w)[1]
    IN  /\ m[3] # None
        /\ m[4] = "up_to_date"
        /\ ProducedFor(m[3][1]) # CachedHour

\* C30: a visualization_update built from the State Cache that carries an
\* output with status up_to_date carries an output produced for the cycle of
\* the cache's current timestamp.
C30_NoStaleOutput ==
    current_timestamp # None => \A w \in enabled : ~StaleAsCurrent(w)

\* the same until the first cycle starts
C30_AfterLoad ==
    (current_timestamp # None /\ NoCycleYet) => \A w \in enabled : ~StaleAsCurrent(w)

\* the latest cycle directory on disk lacks the artifact of an enabled worker
LatestIsIncomplete ==
    /\ find_latest_dir # None
    /\ \E w \in enabled : ~Exists(find_latest_dir[1], get_model_filename(w))

\* C31: whatever a crash left in the archive, a cycle directory with any part
\* of its files or without metadata, the startup load followed by
\* needs_refresh does not raise and returns true or false, the scheduler is
\* started, and a cycle that was left incomplete is refreshed at once.
C31_RestartSafety ==
    /\ app # "failed"
    /\ needs # "raised"
    /\ app \in {"checked", "running"} => needs \in {"true", "false"}
    /\ (app \in {"checked", "running"} /\ NoCycleYet /\ LatestIsIncomplete) =>
          (needs = "true" /\ next_run_time # None /\ next_run_time[1] <= now)

\* the same when the latest cycle directory has its metadata record
C31_WithMetadata ==
    (app # "init" /\ (find_latest_dir # None => Exists(find_latest_dir[1], MetadataFile))) =>
        /\ app # "failed"
        /\ needs # "raised"
        /\ (app \in {"checked", "running"} /\ NoCycleYet /\ LatestIsIncomplete) =>
              (needs = "true" /\ next_run_time # None /\ next_run_time[1] <= now)

----------------------------------------------------------------------------
(* Claims about the Archive Store, checked under SpecArch *)

IsSave == call.op \in {"save_metadata", "save_weather", "save_visualization"}

\* the file the last write operation wrote
SavedFile ==
    IF call.op = "save_metadata" THEN MetadataFile
    ELSE IF call.op = "save_weather" THEN WeatherFile
    ELSE get_model_filename(call.name)

\* C14: each archive write operation can be called in every state of the
\* archive (save_visualization also without metadata) and leaves its payload
\* as the content of its file, so the last write wins; calling it a second
\* time with the same key and payload changes nothing in the archive.
C14_IdempotentPersistence ==
    /\ [](IsSave => /\ archive[CycleHour].exists
                    /\ archive[CycleHour].files[SavedFile] = Some(call.payload))
    /\ [][(call'.op \in {"save_metadata", "save_weather", "save_visualization"}
            /\ call'.rep) => (archive' = archive /\ ymDirs' = ymDirs)]_vars
    /\ [](/\ ENABLED save_metadata
          /\ \A p \in ArchPayloads : ENABLED save_weather(p)
          /\ \A w \in Workers : \A n \in 0 .. MaxChunks :
                ENABLED save_visualization(w, Html(w, n)))

\* save_visualization was called twice with the same key and payload on a
\* directory that has no metadata
C14_Witness ==
    /\ call.op = "save_visualization"
    /\ call.rep
    /\ ~Exists(CycleHour, MetadataFile)
    /\ Exists(CycleHour, get_model_filename(call.name))

\* C15: load_hour on a cycle directory with any set of files present does not
\* raise; it returns outputs for exactly the expected workers whose artifact
\* exists and a missing list of exactly the others, and that list is what
\* get_missing_models returns.
C15_PartialLoad ==
    call.op = "load_hour" =>
       /\ ~call.raised
       /\ call.result # None =>
             /\ DOMAIN call.result[1].visualizations =
                   {m \in enabled : Exists(CycleHour, get_model_filename(m))}
             /\ Range(call.result[1].missing_visualizations) =
                   {m \in enabled : ~Exists(CycleHour, get_model_filename(m))}
             /\ call.result[1].missing_visualizations =
                   get_missing_models(CycleHour, get_enabled_ai_model_names)

\* a load that returns, returns the partition of the expected workers
C15_WhenItReturns ==
    (call.op = "load_hour" /\ call.result # None) =>
       /\ DOMAIN call.result[1].visualizations =
             {m \in enabled : Exists(CycleHour, get_model_filename(m))}
       /\ Range(call.result[1].missing_visualizations) =
             {m \in enabled : ~Exists(CycleHour, get_model_filename(m))}
       /\ call.result[1].missing_visualizations =
             get_missing_models(CycleHour, get_enabled_ai_model_names)

\* the artifact of worker v, and whether v is reported missing
Artifact(v) == archive[CycleHour].files[get_model_filename(v)]
Missing(v) == v \in Range(get_missing_models(CycleHour, get_enabled_ai_model_names))

\* C28: for two distinct enabled workers, saving the output of one leaves the
\* artifact of the other as it was, absent or present with the same content,
\* so the other is reported missing after the save exactly if it was before.
C28_ArtifactIsolation ==
    [][\A w \in enabled : \A v \in enabled \ {w} :
          (call'.op = "save_visualization" /\ call'.name = w) =>
             /\ Artifact(v)' = Artifact(v)
             /\ Missing(v)' <=> Missing(v)]_vars

\* the same for two workers whose names give different file names
C28_DistinctFileNames ==
    [][\A w \in enabled : \A v \in enabled \ {w} :
          (/\ call'.op = "save_visualization" /\ call'.name = w
           /\ get_model_filename(v) # get_model_filename(w)) =>
             /\ Artifact(v)' = Artifact(v)
             /\ Missing(v)' <=> Missing(v)]_vars

----------------------------------------------------------------------------
(* Claims about the directory names, checked under SpecLatest *)

\* the place of a timestamp in time
Chron(t) == ((t.year * 12 + t.month) * 31 + t.day) * 24 + t.hour

\* the cycle with the greatest timestamp among those that have a directory
LatestCycle == CHOOSE t \in tree.cycles : \A u \in tree.cycles : Chron(u) <= Chron(t)

\* C26: after any sequence of archive writes, find_latest_dir returns the
\* directory of the cycle with the greatest timestamp among the cycles that
\* have a directory, and nothing only when no cycle has a directory.
C26_LatestDir ==
    /\ find_latest_dir_by_name = None <=> tree.cycles = {}
    /\ tree.cycles # {} =>
          find_latest_dir_by_name = Some(get_hourly_dir(LatestCycle))
    /\ (call.op = "find_latest_dir" /\ tree.cycles # {}) =>
          call.result = Some(get_hourly_dir(LatestCycle))

\* find_latest_dir was called on cycles of February and of October of one
\* year, with cycles of days 9 and 10 in October, and returned one of October
C26_Witness ==
    /\ call.op = "find_latest_dir"
    /\ \E t, u, v \in tree.cycles :
          /\ t.year = u.year /\ t.month = 2 /\ u.month = 10
          /\ v.year = u.year /\ v.month = 10 /\ u.day = 9 /\ v.day = 10
    /\ call.result = Some(get_hourly_dir(LatestCycle))
    /\ LatestCycle.month = 10

----------------------------------------------------------------------------
(* Claims about the Broadcast Hub, checked under SpecHub *)

\* the initial sequence for the enabled models, with or without weather_data
InitialSequence(withWeather) ==
    << <<"config_info", <<>>>> >>
       \o (IF withWeather THEN << <<"weather_data", <<>>>> >> ELSE <<>>)
       \o [i \in 1 .. Len(get_enabled_ai_model_names) |->
              <<"visualization_update", get_enabled_ai_model_names[i]>>]

\* type and model name of each message of a received sequence
Kinds(got) == [n \in DOMAIN got |-> <<got[n][2], got[n][3]>>]

FromConnect(got) == SelectSeq(got, LAMBDA m : m[1] = "connect")

\* C12: an observer whose connect() went through without a failed send has
\* received config_info, then weather_data if data is cached, then one
\* visualization_update per enabled worker, and nothing else before that
\* sequence was complete, also when a cycle broadcasts meanwhile.
C12_ConnectSequence ==
    /\ [](\A o \in Observers :
            (hello[o].k > 0 /\ ~hello[o].failed) =>
               /\ \A n \in DOMAIN hello[o].got : hello[o].got[n][1] = "connect"
               /\ conn[o] # "init" =>
                     /\ Kinds(hello[o].got)
                           \in {InitialSequence(TRUE), InitialSequence(FALSE)}
                     /\ Kinds(hello[o].got) = InitialSequence(TRUE)
                           => current_weather # None)
    /\ [][\A o \in Observers :
            (conn[o] = "init" /\ hello[o].k = 1 /\ hello'[o].k > 1
               /\ current_weather # None) => hello'[o].k = 2]_vars

\* what connect() itself sends is the initial sequence, in order, with
\* weather_data only if data is cached by then
C12_SentByConnect ==
    /\ [](\A o \in Observers :
            (hello[o].k > 0 /\ ~hello[o].failed /\ conn[o] # "init") =>
               /\ Kinds(FromConnect(hello[o].got))
                     \in {InitialSequence(TRUE), InitialSequence(FALSE)}
               /\ Kinds(FromConnect(hello[o].got)) = InitialSequence(TRUE)
                     => current_weather # None)
    /\ [][\A o \in Observers :
            (conn[o] = "init" /\ hello[o].k = 1 /\ hello'[o].k > 1
               /\ current_weather # None) => hello'[o].k = 2]_vars

\* a broadcast of slot i returns in this step
EndsBroadcast(i) ==
    /\ job[i].pc = "broadcast"
    /\ job'[i].pc # "broadcast" \/ job'[i].k # job[i].k

\* observer o was removed from the live list by a broadcast: its connection
\* was registered, it did not fail in connect() and it did not disconnect
Evicted(o) ==
    /\ conn[o] \in {"init", "open"}
    /\ ~hello[o].failed
    /\ o \notin Range(active_connections)

\* C13: a broadcast that returns removes from the live list exactly the
\* observers whose send failed in it and keeps every other one in place; a
\* broadcast is never attempted on an observer evicted before, and a broadcast
\* that ends with the live list it began with is delivered, once, to every
\* observer of the list whose send did not fail.
C13_Eviction ==
    /\ [][\A i \in Slots : EndsBroadcast(i) =>
             /\ active_connections' = RemoveAll(active_connections, job[i].disc)
             /\ \A o \in Range(active_connections) \ job[i].disc :
                   o \in Range(active_connections')
             /\ (job[i].msg # None /\ active_connections = job[i].at0) =>
                   /\ Range(job[i].at0) \ job[i].disc \subseteq Range(job[i].sent)
                   /\ Len(job[i].sent) = Cardinality(Range(job[i].sent))]_vars
    /\ [][\A i \in Slots :
             (job[i].pc = "broadcast" /\ job'[i].idx = job[i].idx + 1) =>
                ~Evicted(active_connections[job[i].idx])]_vars
    /\ [][\A o \in Observers :
             Evicted(o) => o \notin Range(active_connections')]_vars

\* observer o1 was evicted by a broadcast of the cycle, and a later broadcast
\* of the cycle has been delivered to o2
C13_Witness ==
    /\ Evicted("o1")
    /\ \E i \in Slots :
          /\ job[i].pc = "broadcast"
          /\ job[i].k >= 2
          /\ job[i].sent = <<"o2">>
          /\ job[i].idx > Len(active_connections)

\* C23: a send that fails, in a broadcast or in the initial push of connect,
\* is absorbed: the broadcast goes on with the next observer and the cycle with
\* its next step, connect goes on, the archive and the State Cache are not
\* changed, no other observer is removed, and the message of the broadcast is
\* delivered to the other observers of the list; a cycle ends only after it
\* has made all its broadcasts.
C23_DeliveryFailureAbsorbed ==
    /\ [][\A i \in Slots :
             (/\ job[i].pc = "broadcast"
              /\ job[i].disc \subseteq job'[i].disc
              /\ job'[i].disc # job[i].disc) =>
                /\ job'[i].pc = "broadcast"
                /\ job'[i].k = job[i].k
                /\ job'[i].idx = job[i].idx + 1
                /\ Snapshot' = Snapshot
                /\ active_connections' = active_connections]_vars
    /\ [][\A o \in Observers :
             (hello'[o].failed /\ ~hello[o].failed) =>
                /\ conn'[o] = "init"
                /\ Snapshot' = Snapshot
                /\ job' = job
                /\ \A p \in Observers \ {o} :
                      p \in Range(active_connections) =>
                         p \in Range(active_connections')]_vars
    /\ [][\A i \in Slots :
             (EndsBroadcast(i) /\ job[i].disc # {}
                /\ active_connections = job[i].at0) =>
                Range(job[i].at0) \ job[i].disc \subseteq Range(job[i].sent)]_vars
    /\ [](\A i \in Slots :
             job[i].pc = "broadcast" => ENABLED (BroadcastSend(i) \/ BroadcastEnd(i)))
    /\ [](last.outcome # "none" =>
             Len(last.log) = Len(BroadcastPlan))

\* in one broadcast the send to o1 failed and the send to o2 after it went
\* through
C23_Witness ==
    \E i \in Slots :
        /\ job[i].pc = "broadcast"
        /\ job[i].disc = {"o1"}
        /\ job[i].sent = <<"o2">>

\* how many times the broadcast of slot i has sent to observer o
TimesSent(i, o) == Cardinality({n \in DOMAIN job[i].sent : job[i].sent[n] = o})

\* C29: when a broadcast returns, every observer that was in the live list
\* when it began and is in it still, and whose send did not fail, has been
\* sent the message exactly once, also when observers connected or
\* disconnected while the broadcast was suspended at a send.
C29_DeliveryUnderInterleaving ==
    [][\A i \in Slots :
          (EndsBroadcast(i) /\ job[i].msg # None) =>
             \A o \in (Range(job[i].at0) \cap Range(active_connections))
                         \ job[i].disc :
                TimesSent(i, o) = 1]_vars

\* no observer is sent the message of one broadcast twice
C29_AtMostOnce ==
    \A i \in Slots : \A o \in Observers : TimesSent(i, o) <= 1

----------------------------------------------------------------------------
(* Claims about the throttle, checked under SpecThrottle *)

\* C16: a chunk is forwarded to on_update only when at least 5 seconds have
\* passed since the previous forwarded chunk of the worker, or since the task
\* started if there was none; so the chunks streamed within a window of
\* length W lead to at most floor(W/5)+1 intermediate invocations.
C16_Throttle ==
    /\ [][thr'.fwd # thr.fwd =>
             /\ thr'.fwd = thr.fwd + 1
             /\ thr.t - thr.mark >= THROTTLE]_vars
    /\ [](thr.fwd <= ((thr.latest - thr.first) \div THROTTLE) + 1)
    /\ [](thr.fwd * THROTTLE <= thr.t)

\* two chunks were forwarded, the second one ten seconds after the start
C16_Witness ==
    /\ thr.fwd = 2
    /\ thr.mark = 2 * THROTTLE
    /\ thr.chunks = MaxStreamed

----------------------------------------------------------------------------
(* Claims about the Orchestrator, checked under SpecGen *)

\* C2: a disabled worker never gets a task, and when generate_all returns, the
\* mapping it returns has exactly one entry per enabled worker name, k entries
\* in all, whatever the outcome of each worker was.
C2_ResultCompleteness ==
    /\ \A w \in Workers \ enabled : task[w].pc = "none"
    /\ gen = "returned" =>
          /\ DOMAIN results = enabled
          /\ Cardinality(DOMAIN results) = Cardinality(enabled)

\* generate_all returned for two enabled workers and a disabled one, and one
\* of the two had failed in its backend
C2_Witness ==
    /\ gen = "returned"
    /\ Cardinality(enabled) = 2
    /\ \E w \in DOMAIN results : results[w][1] = "backend"

\* the tasks that hold a slot of the semaphore
Holding == {w \in Workers :
               task[w].pc \in {"backend", "cb_open", "cb_write", "cb_bcast"}}

\* C3: with a concurrency limit L > 0, at most L tasks are inside the backend
\* generation call (or anywhere else past the semaphore) at the same time, and
\* a waiting task starts only when fewer than L tasks hold a slot.
C3_BoundedConcurrency ==
    /\ [](max_concurrent > 0 =>
            /\ Cardinality({w \in Workers : InWaitFor(w)}) <= max_concurrent
            /\ Cardinality(Holding) <= max_concurrent)
    /\ [][\A w \in Workers :
            (max_concurrent > 0 /\ task[w].pc = "pending" /\ task'[w].pc # "pending")
               => Cardinality(Holding) < max_concurrent]_vars

\* under limit 1 a task is in its backend call after another one has finished,
\* so it had waited for the slot
C3_Witness ==
    /\ max_concurrent = 1
    /\ \E w, v \in Workers : task[w].pc = "done" /\ task[v].pc = "backend"

\* C4: a worker's failure (unknown provider, backend error, timeout) is turned
\* into an error page for that worker, which is stored in the cache and
\* returned as its result; a task raises, and generate_all with it, only when
\* on_update itself raised, and when generate_all returns every sibling has a
\* result of its own.
C4_FailureIsolation ==
    /\ \A w \in Workers : task[w].pc = "raised" => task[w].cbRaised
    /\ gen = "raised" => \E w \in Workers : task[w].pc = "raised" /\ task[w].cbRaised
    /\ \A w \in Workers :
          task[w].pc = "done" =>
             /\ task[w].html[2] = w
             /\ w \in DOMAIN current_visualizations
             /\ current_visualizations[w] = task[w].html
             /\ Exists(CycleHour, get_model_filename(w))
    /\ gen = "returned" =>
          \A w \in enabled : w \in DOMAIN results /\ results[w] = task[w].html

\* generate_all returned: one worker had timed out and has its error page, a
\* sibling has its own output
C4_Witness ==
    /\ gen = "returned"
    /\ \E w, v \in DOMAIN results :
          /\ results[w] = ErrorHtml(w, "timeout")
          /\ results[v][1] = "html"
          /\ results[v][2] = v

\* C7: when an invocation of the completion callback for worker w with output
\* h has returned, the archive artifact of w for the cycle hour is h, the
\* cache's output of w is h, the cache's status of w is up_to_date, and the
\* visualization_update of w has been broadcast.
C7_CallbackEffect ==
    cbDone # None =>
       LET w == cbDone[1][1]
           h == cbDone[1][2]
       IN  /\ archive[CycleHour].files[get_model_filename(w)] = Some(h)
           /\ w \in DOMAIN current_visualizations
           /\ current_visualizations[w] = h
           /\ w \in DOMAIN visualization_status
           /\ visualization_status[w] = "up_to_date"

\* what the callback does do when no other worker writes the same file: the
\* artifact and the cached output are h
C7_StoredAndCached ==
    cbDone # None =>
       LET w == cbDone[1][1]
           h == cbDone[1][2]
       IN  /\ w \in DOMAIN current_visualizations
           /\ current_visualizations[w] = h
           /\ (\A v \in enabled \ {w} : get_model_filename(v) # get_model_filename(w))
                 => archive[CycleHour].files[get_model_filename(w)] = Some(h)

\* the on_update invocations of worker w that were made for reason r
Ups(w, r) == SelectSeq(task[w].ups, LAMBDA u : u[1] = r)

\* C17: for a worker whose backend call has completed, on_update is invoked
\* exactly once more, with the complete output, after every intermediate
\* invocation, and that output is the worker's result and its entry in the
\* mapping generate_all returns.
C17_CompletionForwarded ==
    \A w \in Workers :
       task[w].final # None =>
          /\ Len(Ups(w, "final")) + Len(Ups(w, "except")) = 1
          /\ task[w].ups[Len(task[w].ups)] = <<"final", task[w].final[1]>>
          /\ task[w].pc = "done" => task[w].html = task[w].final[1]
          /\ gen = "returned" => results[w] = task[w].final[1]

\* the same as long as the final on_update has not raised
C17_UnlessCallbackRaises ==
    \A w \in Workers :
       (task[w].final # None /\ Len(Ups(w, "except")) = 0) =>
          /\ Len(Ups(w, "final")) = 1
          /\ task[w].ups[Len(task[w].ups)] = <<"final", task[w].final[1]>>
          /\ task[w].pc = "done" => task[w].html = task[w].final[1]
          /\ gen = "returned" => results[w] = task[w].final[1]

FailureKinds == {"provider", "backend", "timeout", "callback"}

\* C18: a worker task that timed out or failed in another way has made one
\* error page with the worker's name and the failure, has handed it to
\* on_update exactly once, as its last invocation, and has it as its result
\* and as its entry in the mapping generate_all returns; a task that did not
\* fail hands no error page to on_update.
C18_DegradedResult ==
    \A w \in Workers :
       /\ Len(Ups(w, "except")) <= 1
       /\ Len(Ups(w, "except")) = 1 =>
             /\ task[w].ups[Len(task[w].ups)] = Ups(w, "except")[1]
             /\ Ups(w, "except")[1][2][1] \in FailureKinds
             /\ Ups(w, "except")[1][2] = ErrorHtml(w, Ups(w, "except")[1][2][1])
             /\ task[w].html = Ups(w, "except")[1][2]
       /\ task[w].pc = "done" =>
             (task[w].html[1] \in FailureKinds <=> Len(Ups(w, "except")) = 1)
       /\ (gen = "returned" /\ Len(Ups(w, "except")) = 1) =>
             results[w] = Ups(w, "except")[1][2]

\* generate_all returned: a worker whose backend failed after a forwarded
\* chunk has the error page as its entry
C18_Witness ==
    /\ gen = "returned"
    /\ \E w \in DOMAIN results :
          /\ results[w] = ErrorHtml(w, "backend")
          /\ Len(task[w].ups) = 2
          /\ task[w].ups[1][1] = "backend"

\* the tasks of generate_all that have started and not ended
Unfinished == {w \in Workers : task[w].pc \notin {"none", "done", "raised"}}

\* C19: when generate_all has returned or raised, every worker task it
\* started has ended, and from then on no task writes to the archive, changes
\* the State Cache or broadcasts.
C19_NoWorkOutlives ==
    /\ [](gen \in {"returned", "raised"} => Unfinished = {})
    /\ [][(gen \in {"returned", "raised"}) =>
             /\ archive' = archive
             /\ current_visualizations' = current_visualizations
             /\ \A w \in Workers : (task'[w].idx = task[w].idx)]_vars

\* the same for a generate_all that returns
C19_WhenItReturns ==
    /\ [](gen = "returned" => Unfinished = {})
    /\ [][(gen = "returned") =>
             /\ archive' = archive
             /\ current_visualizations' = current_visualizations
             /\ \A w \in Workers : (task'[w].idx = task[w].idx)]_vars

\* C22: an error raised by the archive write of the completion callback is
\* not converted into a worker result: no error page is made for it and
\* handed to on_update, and the task whose on_update raised ends by raising,
\* which makes generate_all raise.
C22_PersistenceFailure ==
    \A w \in Workers :
       /\ \A n \in DOMAIN task[w].ups : task[w].ups[n][2][1] # "callback"
       /\ task[w].html # <<>> => task[w].html[1] # "callback"
       /\ task[w].cbRaised => gen = "raised"

\* an error of the callback's write that is raised inside the except block
\* does propagate
C22_InsideExcept ==
    \A w \in Workers : task[w].cbRaised => (task[w].pc = "raised" /\ gen = "raised")

\* C24: under fair scheduling every task that waits for a slot gets one,
\* every task ends (with its output, with an error page after a failure or a
\* timeout, or by raising when on_update raised in the except block), and
\* generate_all comes to its end, also when a backend call never responds.
C24_Termination ==
    /\ \A w \in Workers :
          (task[w].pc = "pending") ~> (task[w].pc # "pending")
    /\ \A w \in Workers :
          (task[w].pc # "none") ~> (task[w].pc \in {"done", "raised"})
    /\ (gen = "running") ~> (gen \in {"returned", "raised"})

\* generate_all returned under limit 1 with two workers, both timed out
C24_Witness ==
    /\ gen = "returned"
    /\ max_concurrent = 1
    /\ Cardinality(DOMAIN results) = 2
    /\ \A w \in DOMAIN results : results[w] = ErrorHtml(w, "timeout")

\* C25: within one call of generate_all, once the artifact of a worker has
\* been written, no later step writes it again, changes or deletes it.
C25_WriteOnce ==
    [][\A w \in enabled :
          archive[CycleHour].files[get_model_filename(w)]
                \notin {None, Some(Truncated)} =>
             archive'[CycleHour].files[get_model_filename(w)]
                = archive[CycleHour].files[get_model_filename(w)]]_vars

\* an artifact that exists is never deleted
C25_NeverDeleted ==
    [][\A f \in FileNames :
          archive[CycleHour].files[f] # None =>
             archive'[CycleHour].files[f] # None]_vars

\* C27: with the concurrency limit 0 no task waits for a slot: every task
\* that has not begun can begin, whatever the other tasks do, no semaphore is
\* counted, and all enabled workers can be in their backend call at once.
C27_UnboundedMode ==
    /\ [](max_concurrent = 0 =>
             /\ sem = 0
             /\ \A w \in Workers : task[w].pc = "pending" => ENABLED StartTask(w))
    /\ [][\A w \in Workers :
             (max_concurrent = 0 /\ gen = "idle" /\ gen' = "running") =>
                (w \in enabled <=> task'[w].pc = "pending")]_vars

\* under limit 0 both enabled workers are in their backend call
C27_Witness ==
    /\ max_concurrent = 0
    /\ Cardinality(enabled) = MaxEnabled
    /\ \A w \in enabled : task[w].pc = "backend"

============================================================================
